---- MODULE Spec2Model ----
(***************************************************************************)
(* Model of prueba.py: the scaffolder create_structure(destination,        *)
(* project_name) and its command-line wrapper main(), running against a    *)
(* small POSIX-like filesystem.  Texts are TLA+ strings (Len, SubSeq and \o *)
(* act on their characters); a path is the tuple of its components, <<>>   *)
(* being the filesystem root "/".                                          *)
(***************************************************************************)
EXTENDS Integers, Sequences, FiniteSets, TLC

\* ------------------------------------------------------------------------
\* Bounds of the model
\* ------------------------------------------------------------------------

\* how many of CandidateNames are offered as --project-name
NameCount == 2

\* how many times the script is run, one run after the other
MaxRuns == 2

\* ------------------------------------------------------------------------
\* Program constants: DIRECTORIES and FILES (prueba.py:9-183).  Each template
\* is the value of its dedent(...).strip() + "\n" expression.
\* ------------------------------------------------------------------------

T_README_md ==
    "# {project_name}\n"
 \o "\n"
 \o "Este proyecto fue generado automáticamente utilizando el script de plantilla.\n"
 \o "El objetivo es proporcionar una estructura inicial basada en Clean Architecture\n"
 \o "para un proyecto de Django, separando las responsabilidades en capas bien definidas.\n"

T_manage_py ==
    "#!/usr/bin/env python\n"
 \o "\"\"\"Punto de entrada para las tareas administrativas de Django.\"\"\"\n"
 \o "\n"
 \o "import os\n"
 \o "import sys\n"
 \o "\n"
 \o "\n"
 \o "def main() -> None:\n"
 \o "    os.environ.setdefault(\"DJANGO_SETTINGS_MODULE\", \"src.config.settings.base\")\n"
 \o "    try:\n"
 \o "        from django.core.management import execute_from_command_line\n"
 \o "    except ImportError as exc:  # pragma: no cover - Django puede no estar instalado durante las pruebas\n"
 \o "        raise ImportError(\n"
 \o "            \"No se pudo importar Django. Asegúrate de que esté instalado en tu entorno.\"\n"
 \o "        ) from exc\n"
 \o "    execute_from_command_line(sys.argv)\n"
 \o "\n"
 \o "\n"
 \o "if __name__ == \"__main__\":\n"
 \o "    main()\n"

T_pyproject_toml ==
    "[build-system]\n"
 \o "requires = [\"setuptools\", \"wheel\"]\n"
 \o "build-backend = \"setuptools.build_meta\"\n"
 \o "\n"
 \o "[project]\n"
 \o "name = \"{project_name}\"\n"
 \o "version = \"0.1.0\"\n"
 \o "description = \"Plantilla base de Django con Clean Architecture\"\n"
 \o "readme = \"README.md\"\n"
 \o "requires-python = \">=3.10\"\n"
 \o "authors = [\n"
 \o "    { name = \"Plantilla Automática\", email = \"dev@example.com\" }\n"
 \o "]\n"
 \o "dependencies = [\n"
 \o "    \"django>=4.2\",\n"
 \o "]\n"

T_src_config_settings_base_py ==
    "\"\"\"Configuración base del proyecto Django.\"\"\"\n"
 \o "\n"
 \o "from pathlib import Path\n"
 \o "\n"
 \o "BASE_DIR = Path(__file__).resolve().parent.parent.parent\n"
 \o "\n"
 \o "SECRET_KEY = \"django-insecure-change-me\"\n"
 \o "DEBUG = True\n"
 \o "ALLOWED_HOSTS: list[str] = []\n"
 \o "\n"
 \o "INSTALLED_APPS = [\n"
 \o "    \"django.contrib.admin\",\n"
 \o "    \"django.contrib.auth\",\n"
 \o "    \"django.contrib.contenttypes\",\n"
 \o "    \"django.contrib.sessions\",\n"
 \o "    \"django.contrib.messages\",\n"
 \o "    \"django.contrib.staticfiles\",\n"
 \o "]\n"
 \o "\n"
 \o "MIDDLEWARE = [\n"
 \o "    \"django.middleware.security.SecurityMiddleware\",\n"
 \o "    \"django.contrib.sessions.middleware.SessionMiddleware\",\n"
 \o "    \"django.middleware.common.CommonMiddleware\",\n"
 \o "    \"django.middleware.csrf.CsrfViewMiddleware\",\n"
 \o "    \"django.contrib.auth.middleware.AuthenticationMiddleware\",\n"
 \o "    \"django.contrib.messages.middleware.MessageMiddleware\",\n"
 \o "    \"django.middleware.clickjacking.XFrameOptionsMiddleware\",\n"
 \o "]\n"
 \o "\n"
 \o "ROOT_URLCONF = \"src.config.urls\"\n"
 \o "WSGI_APPLICATION = \"src.config.wsgi.application\"\n"
 \o "\n"
 \o "DATABASES = {\n"
 \o "    \"default\": {\n"
 \o "        \"ENGINE\": \"django.db.backends.sqlite3\",\n"
 \o "        \"NAME\": BASE_DIR / \"db.sqlite3\",\n"
 \o "    }\n"
 \o "}\n"
 \o "\n"
 \o "AUTH_PASSWORD_VALIDATORS = []\n"
 \o "\n"
 \o "LANGUAGE_CODE = \"es-es\"\n"
 \o "TIME_ZONE = \"UTC\"\n"
 \o "USE_I18N = True\n"
 \o "USE_TZ = True\n"
 \o "\n"
 \o "STATIC_URL = \"static/\"\n"
 \o "\n"
 \o "DEFAULT_AUTO_FIELD = \"django.db.models.BigAutoField\"\n"

T_src_config_urls_py ==
    "\"\"\"Configuración de URLs del proyecto.\"\"\"\n"
 \o "\n"
 \o "from django.contrib import admin\n"
 \o "from django.urls import path\n"
 \o "\n"
 \o "urlpatterns = [\n"
 \o "    path(\"admin/\", admin.site.urls),\n"
 \o "]\n"

T_src_config_wsgi_py ==
    "\"\"\"Configuración WSGI para el proyecto.\"\"\"\n"
 \o "\n"
 \o "import os\n"
 \o "from django.core.wsgi import get_wsgi_application\n"
 \o "\n"
 \o "os.environ.setdefault(\"DJANGO_SETTINGS_MODULE\", \"src.config.settings.base\")\n"
 \o "\n"
 \o "application = get_wsgi_application()\n"

T_src_config_asgi_py ==
    "\"\"\"Configuración ASGI para el proyecto.\"\"\"\n"
 \o "\n"
 \o "import os\n"
 \o "from django.core.asgi import get_asgi_application\n"
 \o "\n"
 \o "os.environ.setdefault(\"DJANGO_SETTINGS_MODULE\", \"src.config.settings.base\")\n"
 \o "\n"
 \o "application = get_asgi_application()\n"

FILES ==
    << [path |-> <<"README.md">>, content |-> T_README_md],
       [path |-> <<"manage.py">>, content |-> T_manage_py],
       [path |-> <<"pyproject.toml">>, content |-> T_pyproject_toml],
       [path |-> <<"src", "__init__.py">>, content |-> "\n"],
       [path |-> <<"src", "config", "__init__.py">>, content |-> "\n"],
       [path |-> <<"src", "config", "settings", "__init__.py">>, content |-> "\n"],
       [path |-> <<"src", "config", "settings", "base.py">>, content |-> T_src_config_settings_base_py],
       [path |-> <<"src", "config", "urls.py">>, content |-> T_src_config_urls_py],
       [path |-> <<"src", "config", "wsgi.py">>, content |-> T_src_config_wsgi_py],
       [path |-> <<"src", "config", "asgi.py">>, content |-> T_src_config_asgi_py],
       [path |-> <<"src", "apps", "__init__.py">>, content |-> "\n"],
       [path |-> <<"src", "core", "__init__.py">>, content |-> "\n"],
       [path |-> <<"src", "core", "application", "__init__.py">>, content |-> "\n"],
       [path |-> <<"src", "core", "domain", "__init__.py">>, content |-> "\n"],
       [path |-> <<"src", "core", "infrastructure", "__init__.py">>, content |-> "\n"],
       [path |-> <<"src", "core", "presentation", "__init__.py">>, content |-> "\n"],
       [path |-> <<"tests", "__init__.py">>, content |-> "\n"] >>

DIRECTORIES ==
    << <<"src">>,
       <<"src", "apps">>,
       <<"src", "config">>,
       <<"src", "config", "settings">>,
       <<"src", "core">>,
       <<"src", "core", "application">>,
       <<"src", "core", "domain">>,
       <<"src", "core", "infrastructure">>,
       <<"src", "core", "presentation">>,
       <<"tests">> >>

\* the token of content.replace("{project_name}", project_name)
Placeholder == "{project_name}"

\* values of --project-name; the first is the test's, the third is
\* parse_args' default
CandidateNames ==
    << "mi_proyecto", "{project_name}", "django_clean_architecture", "x",
       "a{project_name}b", "" >>

Min(a, b) == IF a < b THEN a ELSE b

NameIndex(n) == CHOOSE i \in 1..Len(CandidateNames) : CandidateNames[i] = n

ProjectNames ==
    { CandidateNames[i] : i \in 1..Min(NameCount, Len(CandidateNames)) }

\* ------------------------------------------------------------------------
\* Text: str.replace
\* ------------------------------------------------------------------------

\* the positions at which sub occurs in s
Matches(s, sub) ==
    { i \in 1..(Len(s) - Len(sub) + 1) : SubSeq(s, i, i + Len(sub) - 1) = sub }

\* the first occurrence of sub in s at or after position i, 0 when none
NextMatch(s, sub, i) ==
    LET later == { m \in Matches(s, sub) : m >= i }
    IN  IF later = {} THEN 0
        ELSE CHOOSE m \in later : \A k \in later : m <= k

RECURSIVE ReplaceFrom(_, _, _, _)
ReplaceFrom(s, old, new, i) ==
    LET m == NextMatch(s, old, i)
    IN  IF m = 0 THEN SubSeq(s, i, Len(s))
        ELSE SubSeq(s, i, m - 1) \o new
                 \o ReplaceFrom(s, old, new, m + Len(old))

\* a mistaken replace: the text is written as it stands in the template
ReplaceNothing(s, old, new) == s

\* s.replace(old, new) for a non-empty old: every occurrence, left to right,
\* without overlap and without rescanning what was substituted
Replace(s, old, new) == ReplaceFrom(s, old, new, 1)

\* the text written for a template and a project name (prueba.py:196)
Render(template, n) == Replace(template, Placeholder, n)

\* ------------------------------------------------------------------------
\* Paths
\* ------------------------------------------------------------------------

\* the process's working directory
Cwd == << "work" >>

\* values of the positional argument; "." is parse_args' default
DestArgs == { ".", "new/out" }

\* pathlib's parent: the root is its own parent
Parent(p) == IF p = << >> THEN p ELSE SubSeq(p, 1, Len(p) - 1)

Prefixes(p) == { SubSeq(p, 1, k) : k \in 0..Len(p) }

RECURSIVE SplitAcc(_, _, _)
SplitAcc(s, i, cur) ==
    LET piece == IF cur \in { "", "." } THEN << >> ELSE << cur >>
    IN  IF i > Len(s) THEN piece
        ELSE IF SubSeq(s, i, i) = "/" THEN piece \o SplitAcc(s, i + 1, "")
        ELSE SplitAcc(s, i + 1, cur \o SubSeq(s, i, i))

\* the components of a path string, "" and "." dropped
Parts(s) == SplitAcc(s, 1, "")

IsAbsolute(s) == Len(s) > 0 /\ SubSeq(s, 1, 1) = "/"

\* Path(arg).resolve(): made absolute against the working directory
Resolve(arg) == IF IsAbsolute(arg) THEN Parts(arg) ELSE Cwd \o Parts(arg)

RECURSIVE PathStr(_)
PathStr(p) ==
    IF p = << >> THEN "/"
    ELSE IF Len(p) = 1 THEN "/" \o p[1]
    ELSE PathStr(Parent(p)) \o "/" \o p[Len(p)]

SeqRange(s) == { s[i] : i \in 1..Len(s) }

DirPaths == SeqRange(DIRECTORIES)

FilePaths == { FILES[i].path : i \in 1..Len(FILES) }

\* paths outside the fixed layout that a destination may already hold
ExtraFile == << "notes.txt" >>
ExtraDir == << "docs" >>
ExtraInner == << "src", "local.py" >>
ExtraPaths == { ExtraFile, ExtraDir, ExtraInner }

Destinations == { Resolve(a) : a \in DestArgs }

\* every path of the model's filesystem
AllPaths ==
    UNION { Prefixes(d)
              \cup { d \o r : r \in DirPaths \cup FilePaths \cup ExtraPaths }
            : d \in Destinations }

\* ------------------------------------------------------------------------
\* Filesystem: path -> entry
\* ------------------------------------------------------------------------

Absent == [kind |-> "absent", content |-> "", writable |-> TRUE]
NewDir == [kind |-> "dir", content |-> "", writable |-> TRUE]
RegFile(text) == [kind |-> "file", content |-> text, writable |-> TRUE]

IsDir(f, p) == f[p].kind = "dir"
IsFile(f, p) == f[p].kind = "file"
Exists(f, p) == f[p].kind # "absent"

\* os.mkdir(p): the errno, or "OK"
MkdirErrno(f, p) ==
    IF p = << >> THEN "EEXIST"
    ELSE IF ~Exists(f, Parent(p)) THEN "ENOENT"
    ELSE IF ~IsDir(f, Parent(p)) THEN "ENOTDIR"
    ELSE IF Exists(f, p) THEN "EEXIST"
    ELSE IF ~f[Parent(p)].writable THEN "EACCES"
    ELSE "OK"

\* open(p, "w") = O_WRONLY | O_CREAT | O_TRUNC: the errno, or "OK"
OpenErrno(f, p) ==
    IF ~Exists(f, Parent(p)) THEN "ENOENT"
    ELSE IF ~IsDir(f, Parent(p)) THEN "ENOTDIR"
    ELSE IF IsDir(f, p) THEN "EISDIR"
    ELSE IF IsFile(f, p) /\ ~f[p].writable THEN "EACCES"
    ELSE IF ~Exists(f, p) /\ ~f[Parent(p)].writable THEN "EACCES"
    ELSE "OK"

\* the exception Python raises for an errno
ErrorName(errno) ==
    CASE errno = "ENOENT" -> "FileNotFoundError"
      [] errno = "ENOTDIR" -> "NotADirectoryError"
      [] errno = "EEXIST" -> "FileExistsError"
      [] errno = "EISDIR" -> "IsADirectoryError"
      [] errno = "EACCES" -> "PermissionError"

\* a write of data at offset 0 of a file holding old
WriteAt0(old, data) ==
    IF Len(old) > Len(data)
    THEN data \o SubSeq(old, Len(data) + 1, Len(old))
    ELSE data

\* mistaken modes: "a" appends, "r+" neither truncates nor appends
OpenModeAppend == "a"
OpenModeKeep == "r+"

\* the mode Path.write_text opens its file with
OpenMode == "w"

\* what open(path, OpenMode) leaves at the path: for "w" an empty regular file
Opened(entry) ==
    IF OpenMode = "w"
    THEN [entry EXCEPT !.kind = "file", !.content = ""]
    ELSE [entry EXCEPT !.kind = "file"]

\* what the file holds once data is written through that descriptor and the
\* file is closed
Written(old, data) ==
    IF OpenMode = "a" THEN old \o data ELSE WriteAt0(old, data)

\* ------------------------------------------------------------------------
\* Initial filesystems
\* ------------------------------------------------------------------------

StaleText == "stale\n"

\* what an earlier, longer version of a file may hold
LongerText(template) == template \o "# trailing text of an earlier version\n"

OldFile(rel, text) == [path |-> rel, content |-> text, writable |-> TRUE]

LockedFile(rel, text) == [path |-> rel, content |-> text, writable |-> FALSE]

\* every file of the layout present with other content, the templated ones
\* longer than what the scaffolder writes for the names on offer
OldFiles ==
    { OldFile(FILES[i].path,
              IF Matches(FILES[i].content, Placeholder) # {}
              THEN LongerText(FILES[i].content)
              ELSE StaleText)
      : i \in 1..Len(FILES) }

Content(dirs, files, ro) == [dirs |-> dirs, files |-> files, ro |-> ro]

\* destinations on which nothing stands in the scaffolder's way
CleanContents ==
    { Content({}, {}, {}),
      Content({ <<"src">>, <<"src", "config">> }, {}, {}),
      Content(DirPaths, {}, {}),
      Content(DirPaths, OldFiles, {}),
      Content(DirPaths, OldFiles, DirPaths \cup { << >> }) }

\* destinations holding a non-directory where a directory is due, a directory
\* where a file is due, or an entry the process may not write
BlockedContents ==
    { Content({ <<"src">> }, { OldFile(<<"src", "config">>, StaleText) }, {}),
      Content({}, { OldFile(<<"tests">>, StaleText) }, {}),
      Content({ <<"pyproject.toml">> }, {}, {}),
      Content({ <<"src">>, <<"src", "core">> }, {}, { <<"src", "core">> }),
      Content({}, { LockedFile(<<"manage.py">>, StaleText) }, {}),
      Content({}, {}, { << >> }),
      Content(DirPaths, {}, { <<"tests">> }) }

\* the subsets of DIRECTORIES a filesystem can hold: closed under parent
DirSubsets ==
    { S \in SUBSET DirPaths : \A d \in S : Len(d) = 1 \/ Parent(d) \in S }

DirsOnlyContents == { Content(S, {}, {}) : S \in DirSubsets }

\* entries outside the layout, present when asked for
Extras(c, with) ==
    IF ~with THEN [dirs |-> {}, files |-> {}]
    ELSE [dirs |-> { ExtraDir },
          files |-> { OldFile(ExtraFile, "keep\n") }
                      \cup IF <<"src">> \in c.dirs
                           THEN { OldFile(ExtraInner, "keep = 1\n") } ELSE {}]

\* what the destination itself is when the script starts
RootKinds == { "dir", "absent", "noparent", "file", "parentfile", "parentro" }

RootKindFits(d, k) ==
    CASE k = "dir" -> TRUE
      [] k \in { "absent", "file" } -> d \notin Prefixes(Cwd)
      [] k = "parentro" -> d \notin Prefixes(Cwd)
      [] OTHER -> Parent(d) \notin Prefixes(Cwd)

\* the filesystem with destination d of kind k holding c (c only under a
\* destination that is a directory)
MakeFs(d, k, c, with) ==
    LET x == Extras(c, with)
        under == IF k = "dir"
                 THEN { d \o r : r \in c.dirs \cup x.dirs } ELSE {}
        dirs == Prefixes(Cwd) \cup under
                  \cup (CASE k = "dir" -> Prefixes(d)
                          [] k \in { "absent", "file", "parentro" } ->
                               Prefixes(Parent(d))
                          [] k = "parentfile" -> Prefixes(Parent(Parent(d)))
                          [] OTHER -> {})
        ro == (IF k = "dir" THEN { d \o r : r \in c.ro } ELSE {})
                \cup (IF k = "parentro" THEN { Parent(d) } ELSE {})
        files == (IF k = "dir"
                  THEN { [f EXCEPT !.path = d \o f.path]
                         : f \in c.files \cup x.files }
                  ELSE {})
                   \cup (IF k = "file" THEN { OldFile(d, StaleText) } ELSE {})
                   \cup (IF k = "parentfile"
                         THEN { OldFile(Parent(d), StaleText) } ELSE {})
    IN  [p \in AllPaths |->
           IF p \in dirs
           THEN [kind |-> "dir", content |-> "", writable |-> p \notin ro]
           ELSE IF \E f \in files : f.path = p
           THEN LET f == CHOOSE g \in files : g.path = p
                IN  [kind |-> "file", content |-> f.content,
                     writable |-> f.writable]
           ELSE Absent]

\* ------------------------------------------------------------------------
\* State
\* ------------------------------------------------------------------------

VARIABLES
    fs,           \* the filesystem: path -> entry
    fs0,          \* the filesystem before the first run (history)
    prev,         \* the filesystem when the latest sequential run began (history)
    destination,  \* main's destination: Path(args.destination).resolve()
    runs,         \* how many runs of the script take place
    pc,           \* per run: where it is in main / create_structure
    idx,          \* per run: the loop index into DIRECTORIES or FILES
    stack,        \* per run: the frames of Path.mkdir(parents=True) in progress
    project_name, \* per run: args.project_name
    err,          \* per run: the exception that ended it, "" when none
    stdout,       \* per run: the lines printed
    exitCode      \* per run: the exit status, -1 while running

vars ==
    << fs, fs0, prev, destination, runs, pc, idx, stack, project_name, err,
       stdout, exitCode >>

Max(a, b) == IF a > b THEN a ELSE b

\* the two invocations of a concurrent session
ConcProcs == { 1, 2 }

Procs == 1..Max(MaxRuns, Cardinality(ConcProcs))

InitWith(args, contents, kinds, withs, nruns) ==
    /\ \E a \in args, k \in kinds, c \in contents, with \in withs :
         /\ RootKindFits(Resolve(a), k)
         /\ k # "dir" => (c = Content({}, {}, {}) /\ ~with)
         /\ destination = Resolve(a)
         /\ fs = MakeFs(Resolve(a), k, c, with)
    /\ fs0 = fs
    /\ prev = fs
    /\ runs = nruns
    /\ pc = [p \in Procs |-> "idle"]
    /\ idx = [p \in Procs |-> 0]
    /\ stack = [p \in Procs |-> << >>]
    /\ project_name = [p \in Procs |-> ""]
    /\ err = [p \in Procs |-> ""]
    /\ stdout = [p \in Procs |-> << >>]
    /\ exitCode = [p \in Procs |-> -1]

\* runs one after the other, on every kind of destination
Init ==
    InitWith(DestArgs, CleanContents \cup BlockedContents, RootKinds, BOOLEAN,
             MaxRuns)

\* one run on a destination holding any subset of the layout's directories
InitDirs ==
    InitWith(DestArgs, DirsOnlyContents, { "dir", "absent", "noparent" },
             BOOLEAN, 1)

\* two runs at once on a destination that blocks neither: the working
\* directory holding an earlier scaffold, or a destination yet to be made
InitConc ==
    \/ InitWith({ "." }, { Content(DirPaths, OldFiles, {}) }, { "dir" },
                { TRUE }, Cardinality(ConcProcs))
    \/ InitWith(DestArgs, { Content({}, {}, {}) }, { "noparent" }, { FALSE },
                Cardinality(ConcProcs))

\* ------------------------------------------------------------------------
\* create_structure and main, one system call per step
\* ------------------------------------------------------------------------

Frame(path, parents) == [path |-> path, parents |-> parents]

\* a mistaken target: the first directory is made under another name
DirTargetMisnamed(d, i) == IF i = 1 THEN d \o ExtraDir ELSE d \o DIRECTORIES[i]

\* destination / directory (prueba.py:190)
DirTarget(d, i) == d \o DIRECTORIES[i]

\* destination / relative_path (prueba.py:194)
FileTarget(d, i) == d \o FILES[i].path

Ended(p) == pc[p] = "done" \/ err[p] # ""

Running(p) == pc[p] # "idle" /\ ~Ended(p)

\* create_structure has returned to main
Returned(p) == pc[p] \in { "returned", "done" } /\ err[p] = ""

\* a mistaken ending: the exception is caught and the process exits normally
RaiseExitZero(p, exception) ==
    /\ err' = [err EXCEPT ![p] = exception]
    /\ exitCode' = [exitCode EXCEPT ![p] = 0]
    /\ UNCHANGED << pc, idx, stack >>

\* the run p ends with an uncaught exception: traceback, exit status 1
Raise(p, exception) ==
    /\ err' = [err EXCEPT ![p] = exception]
    /\ exitCode' = [exitCode EXCEPT ![p] = 1]
    /\ UNCHANGED << pc, idx, stack >>

\* a mistaken continuation: the loop over FILES is skipped
AfterDirsSkipFiles(p) ==
    /\ pc' = [pc EXCEPT ![p] = "returned"]
    /\ idx' = [idx EXCEPT ![p] = 0]
    /\ stack' = [stack EXCEPT ![p] = << >>]

\* after the loop over DIRECTORIES: the first pass of the loop over FILES
AfterDirs(p) ==
    /\ pc' = [pc EXCEPT ![p] = "file_parent"]
    /\ idx' = [idx EXCEPT ![p] = 1]
    /\ stack' = [stack EXCEPT
                   ![p] = << Frame(Parent(FileTarget(destination, 1)), TRUE) >>]

\* a mistaken continuation: the loop over DIRECTORIES is skipped
MkdirReturnedSkipDirs(p) ==
    CASE pc[p] \in { "root", "dirs" } -> AfterDirs(p)
      [] pc[p] = "file_parent" ->
           /\ pc' = [pc EXCEPT ![p] = "file_open"]
           /\ stack' = [stack EXCEPT ![p] = << >>]
           /\ UNCHANGED idx

\* the mkdir call of the current step has returned: on to the next step
MkdirReturned(p) ==
    CASE pc[p] = "root" ->
           /\ pc' = [pc EXCEPT ![p] = "dirs"]
           /\ idx' = [idx EXCEPT ![p] = 1]
           /\ stack' = [stack EXCEPT
                          ![p] = << Frame(DirTarget(destination, 1), TRUE) >>]
      [] pc[p] = "dirs" /\ idx[p] < Len(DIRECTORIES) ->
           /\ idx' = [idx EXCEPT ![p] = idx[p] + 1]
           /\ stack' = [stack EXCEPT
                          ![p] = << Frame(DirTarget(destination, idx[p] + 1),
                                          TRUE) >>]
           /\ UNCHANGED pc
      [] pc[p] = "dirs" /\ idx[p] >= Len(DIRECTORIES) -> AfterDirs(p)
      [] pc[p] = "file_parent" ->
           /\ pc' = [pc EXCEPT ![p] = "file_open"]
           /\ stack' = [stack EXCEPT ![p] = << >>]
           /\ UNCHANGED idx

\* one frame of Path.mkdir is done: return to its caller
PopFrame(p) ==
    IF Len(stack[p]) = 1
    THEN MkdirReturned(p)
    ELSE /\ stack' = [stack EXCEPT ![p] = SubSeq(@, 1, Len(@) - 1)]
         /\ UNCHANGED << pc, idx >>

\* a mistaken mkdir: every OSError is swallowed, whatever stands at the path
MkdirToleratesAll(f, path) == TRUE

\* a mistaken mkdir: exist_ok left at False
MkdirToleratesNothing(f, path) == FALSE

\* Path.mkdir's "except OSError: if not exist_ok or not self.is_dir(): raise"
\* with exist_ok=True: the error is swallowed when the path is a directory
MkdirTolerates(f, path) == IsDir(f, path)

\* main up to the first system call of create_structure, for a run that
\* follows the previous run's end
StartSeq(p) ==
    /\ pc[p] = "idle"
    /\ p <= runs
    /\ \A q \in Procs : q < p => Ended(q)
    /\ \E n \in ProjectNames : project_name' = [project_name EXCEPT ![p] = n]
    /\ pc' = [pc EXCEPT ![p] = "root"]
    /\ stack' = [stack EXCEPT ![p] = << Frame(destination, TRUE) >>]
    /\ prev' = fs
    /\ UNCHANGED << fs, fs0, destination, runs, idx, err, stdout, exitCode >>

\* the same for one of two uncoordinated runs; the runs are alike, so the
\* names are given out in the order of CandidateNames
StartConc(p) ==
    /\ pc[p] = "idle"
    /\ p \in ConcProcs
    /\ \E n \in ProjectNames :
         /\ \A q \in ConcProcs :
              pc[q] # "idle" =>
                  IF q < p THEN NameIndex(project_name[q]) <= NameIndex(n)
                  ELSE NameIndex(n) <= NameIndex(project_name[q])
         /\ project_name' = [project_name EXCEPT ![p] = n]
    /\ pc' = [pc EXCEPT ![p] = "root"]
    /\ stack' = [stack EXCEPT ![p] = << Frame(destination, TRUE) >>]
    /\ UNCHANGED << fs, fs0, prev, destination, runs, idx, err, stdout,
                    exitCode >>

\* one os.mkdir of a Path.mkdir(parents=True, exist_ok=True) call, and what
\* Path.mkdir does with its outcome
MkdirStep(p) ==
    /\ pc[p] \in { "root", "dirs", "file_parent" }
    /\ err[p] = ""
    /\ LET fr == stack[p][Len(stack[p])]
           e == MkdirErrno(fs, fr.path)
       IN  CASE e = "OK" ->
                  /\ fs' = [fs EXCEPT ![fr.path] = NewDir]
                  /\ PopFrame(p)
                  /\ UNCHANGED << err, exitCode >>
             [] e = "ENOENT" /\ fr.parents /\ Parent(fr.path) # fr.path ->
                  /\ stack' = [stack EXCEPT
                                 ![p] = SubSeq(@, 1, Len(@) - 1)
                                          \o << Frame(fr.path, FALSE),
                                                Frame(Parent(fr.path), TRUE) >>]
                  /\ UNCHANGED << fs, pc, idx, err, exitCode >>
             [] e = "ENOENT" /\ ~(fr.parents /\ Parent(fr.path) # fr.path) ->
                  /\ Raise(p, ErrorName(e))
                  /\ UNCHANGED fs
             [] e \notin { "OK", "ENOENT" } /\ MkdirTolerates(fs, fr.path) ->
                  /\ PopFrame(p)
                  /\ UNCHANGED << fs, err, exitCode >>
             [] OTHER ->
                  /\ Raise(p, ErrorName(e))
                  /\ UNCHANGED fs
    /\ UNCHANGED << fs0, prev, destination, runs, project_name, stdout >>

\* write_text's open(target_file, "w")
OpenStep(p) ==
    /\ pc[p] = "file_open"
    /\ err[p] = ""
    /\ LET t == FileTarget(destination, idx[p])
           e == OpenErrno(fs, t)
       IN  IF e = "OK"
           THEN /\ fs' = [fs EXCEPT ![t] = Opened(@)]
                /\ pc' = [pc EXCEPT ![p] = "file_write"]
                /\ UNCHANGED << idx, stack, err, exitCode >>
           ELSE /\ Raise(p, ErrorName(e))
                /\ UNCHANGED fs
    /\ UNCHANGED << fs0, prev, destination, runs, project_name, stdout >>

\* write_text's write and close: the text reaches the file at offset 0
WriteStep(p) ==
    /\ pc[p] = "file_write"
    /\ err[p] = ""
    /\ LET t == FileTarget(destination, idx[p])
           data == Render(FILES[idx[p]].content, project_name[p])
       IN  fs' = [fs EXCEPT ![t].content = Written(@, data)]
    /\ IF idx[p] < Len(FILES)
       THEN /\ pc' = [pc EXCEPT ![p] = "file_parent"]
            /\ idx' = [idx EXCEPT ![p] = idx[p] + 1]
            /\ stack' = [stack EXCEPT
                           ![p] = << Frame(Parent(FileTarget(destination,
                                                             idx[p] + 1)),
                                           TRUE) >>]
       ELSE /\ pc' = [pc EXCEPT ![p] = "returned"]
            /\ UNCHANGED << idx, stack >>
    /\ UNCHANGED << fs0, prev, destination, runs, project_name, err, stdout,
                    exitCode >>

Confirmation(d) == "Estructura de proyecto creada en: " \o PathStr(d)

\* main's print, and the normal exit
PrintStep(p) ==
    /\ pc[p] = "returned"
    /\ err[p] = ""
    /\ stdout' = [stdout EXCEPT ![p] = Append(@, Confirmation(destination))]
    /\ exitCode' = [exitCode EXCEPT ![p] = 0]
    /\ pc' = [pc EXCEPT ![p] = "done"]
    /\ UNCHANGED << fs, fs0, prev, destination, runs, idx, stack, project_name,
                    err >>

Step(p) == MkdirStep(p) \/ OpenStep(p) \/ WriteStep(p) \/ PrintStep(p)

Next == \E p \in Procs : StartSeq(p) \/ Step(p)

NextConc == \E p \in Procs : StartConc(p) \/ Step(p)

Spec == Init /\ [][Next]_vars

SpecDirs == InitDirs /\ [][Next]_vars

SpecConc == InitConc /\ [][NextConc]_vars

TypeOK ==
    /\ DOMAIN fs = AllPaths
    /\ \A p \in Procs : pc[p] \in { "idle", "root", "dirs", "file_parent",
                                    "file_open", "file_write", "returned",
                                    "done" }

\* ------------------------------------------------------------------------
\* Vocabulary of the properties
\* ------------------------------------------------------------------------

\* the whole fixed layout stands under d
LayoutComplete(f, d) ==
    /\ \A r \in DirPaths : IsDir(f, d \o r)
    /\ \A r \in FilePaths : IsFile(f, d \o r)

\* no run after p has begun
Latest(p) == \A q \in Procs : q > p => pc[q] = "idle"

\* the indices of the files the call of run p has written and closed
WrittenBy(p) ==
    IF pc[p] \in { "returned", "done" } THEN 1..Len(FILES)
    ELSE IF pc[p] \in { "file_parent", "file_open", "file_write" }
    THEN 1..(idx[p] - 1)
    ELSE {}

\* the template with each occurrence of the placeholder given way to n,
\* taken from the last occurrence backwards
RECURSIVE Substituted(_, _)
Substituted(template, n) ==
    LET ms == Matches(template, Placeholder)
    IN  IF ms = {} THEN template
        ELSE LET m == CHOOSE k \in ms : \A j \in ms : j <= k
             IN  Substituted(SubSeq(template, 1, m - 1), n) \o n
                   \o SubSeq(template, m + Len(Placeholder), Len(template))

\* what FILES[i] is to hold for each name on offer
ExpectedText ==
    [i \in 1..Len(FILES) |->
        [n \in ProjectNames |-> Substituted(FILES[i].content, n)]]

Expected(i, n) == ExpectedText[i][n]

Contains(s, sub) == Matches(s, sub) # {}

IndexOf(rel) == CHOOSE i \in 1..Len(FILES) : FILES[i].path = rel

Readme == IndexOf(<< "README.md" >>)
Pyproject == IndexOf(<< "pyproject.toml" >>)

\* the file of FILES[i] under the destination, as the filesystem has it
FileNow(i) == fs[destination \o FILES[i].path]

\* ------------------------------------------------------------------------
\* C1: after create_structure returns without error, every path of
\* DIRECTORIES is a directory and every path of FILES is a regular file
\* under the destination, whatever the destination was before.
\* ------------------------------------------------------------------------
C1_LayoutAfterSuccess ==
    \A p \in Procs : Returned(p) => LayoutComplete(fs, destination)

C1_Witness ==
    /\ Returned(1)
    /\ ~Exists(fs0, destination)
    /\ ~Exists(fs0, Parent(destination))
    /\ LayoutComplete(fs, destination)

\* ------------------------------------------------------------------------
\* C2: a second run on the same destination with the same project name, after
\* a first run that succeeded, raises no error and leaves the filesystem
\* exactly as the first run left it.
\* ------------------------------------------------------------------------
C2_Idempotent ==
    \A p \in Procs :
        (p > 1 /\ Returned(p - 1) /\ pc[p] # "idle" /\ Latest(p)
           /\ project_name[p] = project_name[p - 1])
        => /\ err[p] = ""
           /\ Returned(p) => fs = prev

C2_Witness ==
    /\ Returned(1) /\ Returned(2) /\ Latest(2)
    /\ project_name[1] = project_name[2]
    /\ fs = prev
    /\ fs # fs0

\* ------------------------------------------------------------------------
\* C3: every file a run has written holds its template with every occurrence
\* of {project_name} replaced by the project name, once and literally, also
\* for a name that holds the placeholder itself; pyproject.toml holds the line
\* name = "<project_name>", and README.md and pyproject.toml hold the
\* placeholder only as often as the name brought it in.
\* ------------------------------------------------------------------------
C3_Substitution ==
    \A p \in Procs :
        (Latest(p) /\ pc[p] # "idle") =>
            /\ \A i \in WrittenBy(p) :
                   FileNow(i).content = Expected(i, project_name[p])
            /\ Pyproject \in WrittenBy(p) =>
                   Contains(FileNow(Pyproject).content,
                            "\nname = \"" \o project_name[p] \o "\"\n")
            /\ \A i \in WrittenBy(p) \cap { Readme, Pyproject } :
                   Cardinality(Matches(FileNow(i).content, Placeholder))
                     = Cardinality(Matches(project_name[p], Placeholder))

C3_Witness ==
    \E p \in Procs :
        /\ Returned(p) /\ Latest(p)
        /\ Contains(project_name[p], Placeholder)
        /\ FileNow(Readme).content = Expected(Readme, project_name[p])
        /\ Contains(FileNow(Pyproject).content,
                    "\nname = \"{project_name}\"\n")
        /\ Contains(FILES[Pyproject].content, "\nname = \"{project_name}\"\n")

\* ------------------------------------------------------------------------
\* C4: a regular file that stood at a path of FILES before a run holds, after
\* the run succeeds, exactly the substituted template for that run's name;
\* after a run with name A and a run with name B, README.md and pyproject.toml
\* are those of B.
\* ------------------------------------------------------------------------
C4_Overwrite ==
    \A p \in Procs :
        (Returned(p) /\ Latest(p)) =>
            /\ \A i \in 1..Len(FILES) :
                   IsFile(prev, destination \o FILES[i].path) =>
                       FileNow(i) = RegFile(Expected(i, project_name[p]))
            /\ \A q \in Procs :
                   (q < p /\ Returned(q)
                      /\ project_name[q] # project_name[p]) =>
                       \A i \in { Readme, Pyproject } :
                           /\ FileNow(i).content = Expected(i, project_name[p])
                           /\ FileNow(i).content # Expected(i, project_name[q])

C4_Witness ==
    /\ Returned(1) /\ Returned(2) /\ Latest(2)
    /\ project_name[1] # project_name[2]
    /\ IsFile(fs0, destination \o FILES[Readme].path)
    /\ Len(fs0[destination \o FILES[Readme].path].content)
         > Len(FileNow(Readme).content)
    /\ FileNow(Readme).content = Expected(Readme, project_name[2])

\* ------------------------------------------------------------------------
\* C5: directories that already exist, whichever subset of the destination
\* and DIRECTORIES they are, make no run fail, and the run completes the
\* layout; a destination that is absent, or whose parents are, is created.
\* ------------------------------------------------------------------------
C5_ExistingDirsNoError ==
    \A p \in Procs :
        /\ err[p] = ""
        /\ Returned(p) =>
               /\ LayoutComplete(fs, destination)
               /\ \A a \in Prefixes(destination) : IsDir(fs, a)

C5_Witness ==
    /\ Returned(1)
    /\ IsDir(fs0, destination \o << "src", "core", "domain" >>)
    /\ ~Exists(fs0, destination \o << "src", "apps" >>)
    /\ ~Exists(fs0, destination \o << "tests" >>)
    /\ Exists(fs0, destination \o ExtraFile)

\* ------------------------------------------------------------------------
\* C6: a non-directory standing where a directory is due, or a creation the
\* process is not permitted, makes the run fail with a filesystem error at
\* that step; the run takes no later step, and what it made or overwrote
\* before stays as it made it.
\* ------------------------------------------------------------------------

\* the paths create_structure needs as directories
DirsDue(d) == Prefixes(d) \cup { d \o r : r \in DirPaths }

FileTargets(d) == { d \o r : r \in FilePaths }

\* a non-directory where a directory is due
Collides(f, d) == \E x \in DirsDue(d) : IsFile(f, x)

\* a missing entry of the layout whose creation the parent directory denies
CreationDenied(f, d) ==
    \E x \in DirsDue(d) \cup FileTargets(d) :
        /\ ~Exists(f, x)
        /\ IsDir(f, Parent(x))
        /\ ~f[Parent(x)].writable

\* the path at which run p was when it failed
FailPath(p) ==
    IF pc[p] = "file_open" THEN FileTarget(destination, idx[p])
    ELSE stack[p][Len(stack[p])].path

DeniedAt(f, t) == ~Exists(f, t) /\ IsDir(f, Parent(t)) /\ ~f[Parent(t)].writable

\* the failure of run p is the filesystem's answer at the step it stopped at
FailureCause(p) ==
    LET t == FailPath(p)
    IN  IF pc[p] \in { "root", "dirs", "file_parent" }
        THEN \/ IsFile(fs, t) /\ err[p] = "FileExistsError"
             \/ IsFile(fs, Parent(t)) /\ err[p] = "NotADirectoryError"
             \/ DeniedAt(fs, t) /\ err[p] = "PermissionError"
        ELSE /\ pc[p] = "file_open"
             /\ \/ IsDir(fs, t) /\ err[p] = "IsADirectoryError"
                \/ IsFile(fs, t) /\ ~fs[t].writable
                     /\ err[p] = "PermissionError"
                \/ DeniedAt(fs, t) /\ err[p] = "PermissionError"

\* what run p made before it failed is in place, the rest is as it was
PartialState(p) ==
    /\ \A x \in AllPaths : Exists(prev, x) => fs[x].kind = prev[x].kind
    /\ pc[p] = "dirs" =>
           /\ IsDir(fs, destination)
           /\ \A j \in 1..(idx[p] - 1) : IsDir(fs, DirTarget(destination, j))
    /\ pc[p] \in { "file_parent", "file_open" } =>
           /\ \A r \in DirPaths : IsDir(fs, destination \o r)
           /\ \A i \in WrittenBy(p) :
                  /\ IsFile(fs, destination \o FILES[i].path)
                  /\ FileNow(i).content = Expected(i, project_name[p])
    /\ \A i \in (1..Len(FILES)) \ WrittenBy(p) :
           FileNow(i) = prev[destination \o FILES[i].path]

C6_State ==
    \A p \in Procs :
        /\ (pc[p] # "idle" /\ Latest(p)
              /\ (Collides(prev, destination)
                    \/ CreationDenied(prev, destination)))
           => ~Returned(p)
        /\ (err[p] # "" /\ Latest(p)) => FailureCause(p) /\ PartialState(p)

C6_Step ==
    \A p \in Procs :
        err[p] # "" =>
            /\ pc'[p] = pc[p] /\ idx'[p] = idx[p] /\ stack'[p] = stack[p]
            /\ err'[p] = err[p] /\ stdout'[p] = stdout[p]
            /\ exitCode'[p] = exitCode[p]
            /\ (\A q \in Procs : ~Running(q)) => fs' = fs

\* C6: a run that meets a collision or a denied creation fails there, stops,
\* and leaves what it did in place (the state part and the step part).
C6_FailureNoRollback == []C6_State /\ [][C6_Step]_vars

C6_Witness ==
    /\ err[1] = "PermissionError"
    /\ pc[1] = "file_open"
    /\ idx[1] = Len(FILES)
    /\ FileNow(Readme).content = Expected(Readme, project_name[1])
    /\ ~Exists(fs, FileTarget(destination, idx[1]))
    /\ pc[2] = "idle"

\* ------------------------------------------------------------------------
\* C7: main prints the confirmation line, with the resolved destination, and
\* exits with status 0 only once create_structure has made every directory
\* and written every file; when create_structure fails nothing is printed and
\* the exit status is not 0.
\* ------------------------------------------------------------------------
C7_CliOutcome ==
    \A p \in Procs :
        /\ stdout[p] # << >> =>
               /\ stdout[p]
                    = << "Estructura de proyecto creada en: "
                           \o PathStr(destination) >>
               /\ exitCode[p] = 0 /\ err[p] = "" /\ pc[p] = "done"
               /\ LayoutComplete(fs, destination)
               /\ Latest(p) =>
                      \A i \in 1..Len(FILES) :
                          FileNow(i).content = Expected(i, project_name[p])
        /\ (stdout[p] # << >> /\ destination = << "work", "new", "out" >>) =>
               stdout[p][1] = "Estructura de proyecto creada en: /work/new/out"
        /\ exitCode[p] = 0 => stdout[p] # << >>
        /\ err[p] # "" => stdout[p] = << >> /\ exitCode[p] > 0

C7_Witness ==
    /\ err[1] # "" /\ pc[1] = "file_open" /\ idx[1] > 1
    /\ exitCode[1] = 1 /\ stdout[1] = << >>
    /\ Ended(2) /\ stdout[2] = << >>

\* ------------------------------------------------------------------------
\* C8: within one call the destination is ensured before any entry of
\* DIRECTORIES is made, the entries of DIRECTORIES are ensured in list order
\* and all of them before the first file is written, and a file is written
\* only under a parent that exists; so a call that fails while making
\* directories has written no file.
\* ------------------------------------------------------------------------
C8_State ==
    \A p \in Procs :
        /\ pc[p] = "dirs" =>
               /\ IsDir(fs, destination)
               /\ \A j \in 1..(idx[p] - 1) : IsDir(fs, DirTarget(destination, j))
        /\ pc[p] \in { "file_parent", "file_open", "file_write", "returned",
                       "done" } =>
               /\ IsDir(fs, destination)
               /\ \A j \in 1..Len(DIRECTORIES) :
                      IsDir(fs, DirTarget(destination, j))
        /\ pc[p] = "file_write" =>
               IsDir(fs, Parent(FileTarget(destination, idx[p])))
        /\ (err[p] # "" /\ pc[p] \in { "root", "dirs" } /\ Latest(p)) =>
               \A i \in 1..Len(FILES) :
                   FileNow(i) = prev[destination \o FILES[i].path]

C8_Step ==
    /\ \A i \in 1..Len(FILES) :
           fs'[FileTarget(destination, i)] # fs[FileTarget(destination, i)] =>
               /\ IsDir(fs, Parent(FileTarget(destination, i)))
               /\ IsDir(fs, destination)
               /\ \A j \in 1..Len(DIRECTORIES) :
                      IsDir(fs, DirTarget(destination, j))
    /\ \A j \in 1..Len(DIRECTORIES) :
           (~IsDir(fs, DirTarget(destination, j))
              /\ IsDir(fs', DirTarget(destination, j))) =>
               /\ IsDir(fs, destination)
               /\ \A k \in 1..(j - 1) : IsDir(fs, DirTarget(destination, k))

\* C8: the steps of one call come in the order root, DIRECTORIES in list
\* order, FILES, each file under an existing parent (the state part and the
\* step part).
C8_StepOrder == []C8_State /\ [][C8_Step]_vars

C8_Witness ==
    /\ err[1] = "FileExistsError"
    /\ pc[1] = "dirs"
    /\ idx[1] = Len(DIRECTORIES)
    /\ ~Exists(fs0, destination \o << "src" >>)
    /\ IsDir(fs, destination \o << "src", "core", "presentation" >>)
    /\ \A i \in 1..Len(FILES) : ~Exists(fs, FileTarget(destination, i))

\* ------------------------------------------------------------------------
\* C9: two uncoordinated runs on one destination, with names A and B.
\* ------------------------------------------------------------------------

BothEnded == \A p \in ConcProcs : Ended(p)

\* the text b written over the start of the text a
Over(a, b) ==
    IF Len(a) > Len(b) THEN b \o SubSeq(a, Len(b) + 1, Len(a)) ELSE b

\* C9 as stated: neither run fails because of the other, and once both have
\* ended the layout is complete and every file holds the substituted
\* template of one of the two runs.
C9_EachFileOneRuns ==
    /\ \A p \in ConcProcs : err[p] = ""
    /\ BothEnded =>
           /\ LayoutComplete(fs, destination)
           /\ \A i \in 1..Len(FILES) :
                  FileNow(i).content
                    \in { Expected(i, project_name[p]) : p \in ConcProcs }

\* C9 as amended: neither run fails because of the other; once both have
\* ended the layout is complete and every file holds the substituted
\* template of one of the two runs, or, when the two texts differ in length,
\* the shorter one followed by what the longer one has beyond it; and the
\* write a run makes leaves its own text at the start of the file, and as the
\* whole file unless the file then held a longer text.
C9_State ==
    /\ \A p \in ConcProcs : err[p] = ""
    /\ BothEnded =>
           /\ LayoutComplete(fs, destination)
           /\ \A i \in 1..Len(FILES) :
                  LET a == Expected(i, project_name[1])
                      b == Expected(i, project_name[2])
                  IN  /\ FileNow(i).content \in { a, b, Over(a, b), Over(b, a) }
                      /\ Len(a) = Len(b) => FileNow(i).content \in { a, b }

C9_Step ==
    \A p \in ConcProcs :
        (pc[p] = "file_write" /\ pc'[p] # "file_write") =>
            LET t == FileTarget(destination, idx[p])
                e == Expected(idx[p], project_name[p])
            IN  /\ SubSeq(fs'[t].content, 1, Len(e)) = e
                /\ Len(fs[t].content) <= Len(e) => fs'[t].content = e

\* C9, amended: no failure, a complete layout, and per file the text of one
\* run or the shorter text followed by the longer one's remainder (the state
\* part and the step part).
C9_LastWriteWins == []C9_State /\ [][C9_Step]_vars

C9_Witness ==
    /\ BothEnded
    /\ project_name[1] # project_name[2]
    /\ FileNow(Readme).content
         \notin { Expected(Readme, project_name[p]) : p \in ConcProcs }
    /\ FileNow(Pyproject).content = Expected(Pyproject, project_name[2])

\* ------------------------------------------------------------------------
\* C10: nothing but the destination with its missing parents, the entries of
\* DIRECTORIES and the entries of FILES is ever made, changed or removed;
\* what else stood under the destination stays as it was, and on an absent or
\* empty destination the tree made is exactly the 10 directories and the 17
\* files.
\* ------------------------------------------------------------------------

LayoutPaths(d) == DirsDue(d) \cup FileTargets(d)

\* the paths strictly below d
Under(d) ==
    { x \in AllPaths : Len(x) > Len(d) /\ SubSeq(x, 1, Len(d)) = d }

EmptyOrAbsent(f, d) == \A x \in Under(d) \cup { d } : x # d => ~Exists(f, x)

C10_Frame ==
    /\ \A x \in AllPaths \ LayoutPaths(destination) : fs[x] = fs0[x]
    /\ \A x \in AllPaths :
           (Exists(fs0, x) /\ ~(IsFile(fs0, x) /\ x \in FileTargets(destination)))
           => fs[x] = fs0[x]
    /\ \A p \in Procs :
           (Returned(p) /\ ~IsFile(fs0, destination)
              /\ EmptyOrAbsent(fs0, destination)) =>
               /\ { x \in Under(destination) : Exists(fs, x) }
                    = { destination \o r : r \in DirPaths \cup FilePaths }
               /\ Cardinality({ x \in Under(destination) : IsDir(fs, x) }) = 10
               /\ Cardinality({ x \in Under(destination) : IsFile(fs, x) }) = 17

C10_Witness ==
    /\ Returned(2)
    /\ Exists(fs0, destination \o ExtraInner)
    /\ Exists(fs0, destination \o ExtraDir)
    /\ IsFile(fs0, destination \o << "manage.py" >>)
    /\ fs # fs0

====
